---- MODULE Spec2Model ----
(***************************************************************************)
(* Model of the simulated LoRa/FSK radio driver of                         *)
(* src/src/radio/radio-simul/radio.c.                                      *)
(*                                                                         *)
(* The driver is a set of global variables (MockRadio, TxTimeout,          *)
(* frequency, RadioEvents, IrqFired, OperatingMode, rx_buffer) and the     *)
(* functions of the operation table `Radio`.  One action models one call   *)
(* of one function by the single caller thread.  The history variable      *)
(* `last` records the most recent call: its arguments, the callbacks it    *)
(* invoked on the event sink, the line it printed and how it ended.        *)
(*                                                                         *)
(* base64.h, parson.h, radio.h and mock_radio.h are not part of the        *)
(* sources at hand; the operators that stand for them say so.              *)
(***************************************************************************)
EXTENDS Integers, Sequences, FiniteSets, TLC

VARIABLES
    RadioEvents,    \* radio.c:363  the event sink pointer
    IrqFired,       \* radio.c:347
    frequency,      \* radio.c:447  a float: [m, frac] is m / 2^frac MHz
    MockRadio,      \* radio.c:16   ModulationParams and PacketParams
    TxTimeout,      \* radio.c:338
    OperatingMode,  \* radio.c:790
    rx_buffer,      \* radio.c:659  the bytes the last decode wrote from its start (at most 512)
    proc,           \* the process: "running", "exited" (exit(0)), "crashed" or
                    \* "blocked" (inside a call that does not come back)
    last            \* history: the most recent driver call

vars == <<RadioEvents, IrqFired, frequency, MockRadio, TxTimeout,
          OperatingMode, rx_buffer, proc, last>>

----------------------------------------------------------------------------
(* Bounds of the model *)

\* Longest buffer handed to Send that is enumerated byte by byte.
MaxLen == 2

\* Number of values around the LoRa preamble floor that SetTxConfig is tried with
\* (the requested preamble lengths are PreambleFloor - 1 .. PreambleFloor - 1 + PreambleSpan).
PreambleSpan == 2

----------------------------------------------------------------------------
(* Program constants *)

MODEM_FSK == 0
MODEM_LORA == 1

\* sizeof rx_buffer
RxBufferSize == 512

\* fgets( in, 1024, stdin ) reads at most 1023 characters
MaxLineChars == 1023

\* RxDone( rx_buffer, output_length, -110, 5 )
RxRssi == -110
RxSnr == 5

\* RadioLoRaBandwidths_t as stored: the symbol time table is indexed by Bandwidth - 4
LORA_BW_125 == 4
LORA_BW_250 == 5
LORA_BW_500 == 6

LORA_SF5 == 5
LORA_SF6 == 6

\* preamble floor for SF5 and SF6
PreambleFloor == 12

\* RadioOperatingModes_t (mock_radio.h, not among the sources).  A static of that
\* type starts as the enumerator of value 0, which the SX126x driver calls MODE_SLEEP.
OperatingModes ==
    {"MODE_SLEEP", "MODE_STDBY_RC", "MODE_STDBY_XOSC", "MODE_FS",
     "MODE_TX", "MODE_RX", "MODE_RX_DC", "MODE_CAD"}

----------------------------------------------------------------------------
(* Transport codec: base64 (base64.h, not among the sources) *)

\* The base64 alphabet; the character of sextet v is B64Chars[v + 1].
B64Chars ==
    << "A","B","C","D","E","F","G","H","I","J","K","L","M","N","O","P",
       "Q","R","S","T","U","V","W","X","Y","Z","a","b","c","d","e","f",
       "g","h","i","j","k","l","m","n","o","p","q","r","s","t","u","v",
       "w","x","y","z","0","1","2","3","4","5","6","7","8","9","+","/" >>

B64Pad == "="

B64Char(v) == B64Chars[v + 1]

IsB64Char(c) == \E i \in 1..64 : B64Chars[i] = c

B64Value(c) == (CHOOSE i \in 1..64 : B64Chars[i] = c) - 1

\* The bytes of group k (1-based) of `bytes`: up to three of them.
ByteGroup(bytes, k) == SubSeq(bytes, 3 * k - 2, IF 3 * k <= Len(bytes) THEN 3 * k ELSE Len(bytes))

\* One group: up to three bytes to four characters.
B64EncodeGroup(g) ==
    LET n  == Len(g)
        b0 == g[1]
        b1 == IF n >= 2 THEN g[2] ELSE 0
        b2 == IF n >= 3 THEN g[3] ELSE 0
        t  == b0 * 65536 + b1 * 256 + b2
    IN  << B64Char(t \div 262144),
           B64Char((t \div 4096) % 64),
           IF n >= 2 THEN B64Char((t \div 64) % 64) ELSE B64Pad,
           IF n >= 3 THEN B64Char(t % 64) ELSE B64Pad >>

\* base64_encode( data, input_length, &output_length ): every three bytes give
\* four characters, the last group padded with "=".
B64Encode(bytes) ==
    [i \in 1..(4 * ((Len(bytes) + 2) \div 3)) |->
        B64EncodeGroup(ByteGroup(bytes, (i + 3) \div 4))[((i - 1) % 4) + 1]]

\* The characters of group k (1-based) of `str`.
CharGroup(str, k) == SubSeq(str, 4 * k - 3, 4 * k)

\* A group of four characters is well formed when it is four alphabet characters,
\* or, as the last group only, ends in one or two pad characters.
B64GroupOk(g, isLast) ==
    /\ IsB64Char(g[1])
    /\ IsB64Char(g[2])
    /\ \/ IsB64Char(g[3]) /\ IsB64Char(g[4])
       \/ isLast /\ IsB64Char(g[3]) /\ g[4] = B64Pad
       \/ isLast /\ g[3] = B64Pad /\ g[4] = B64Pad

B64DecodeGroup(g) ==
    LET v2 == IF g[3] = B64Pad THEN 0 ELSE B64Value(g[3])
        v3 == IF g[4] = B64Pad THEN 0 ELSE B64Value(g[4])
        t  == B64Value(g[1]) * 262144 + B64Value(g[2]) * 4096 + v2 * 64 + v3
    IN  << t \div 65536, (t \div 256) % 256, t % 256 >>

B64WellFormed(str) ==
    /\ Len(str) % 4 = 0
    /\ \A k \in 1..(Len(str) \div 4) : B64GroupOk(CharGroup(str, k), k = Len(str) \div 4)

\* The number of pad characters that end well-formed text.
B64PadCount(str) ==
    IF Len(str) = 0 THEN 0
    ELSE IF str[Len(str) - 1] = B64Pad THEN 2
    ELSE IF str[Len(str)] = B64Pad THEN 1
    ELSE 0

B64DecodeBytes(str) ==
    [i \in 1..(3 * (Len(str) \div 4) - B64PadCount(str)) |->
        B64DecodeGroup(CharGroup(str, (i + 2) \div 3))[((i - 1) % 3) + 1]]

\* base64_decode( data, input_length, decoded_data, &output_length ): on well-formed
\* text, the decoded bytes and their number; on malformed text, a failure that
\* writes neither.
B64Decode(str) ==
    IF B64WellFormed(str)
    THEN [ok |-> TRUE, bytes |-> B64DecodeBytes(str)]
    ELSE [ok |-> FALSE, bytes |-> << >>]

----------------------------------------------------------------------------
(* Transport codec: JSON (parson.h, not among the sources) *)

\* A JSON value is a record [type, members, str]; JNull is the NULL pointer that
\* the parson accessors return.
JNull == [type |-> "null", members |-> << >>, str |-> << >>]

JNumber == [type |-> "number", members |-> << >>, str |-> << >>]

JString(s) == [type |-> "string", members |-> << >>, str |-> s]

JObject(m) == [type |-> "object", members |-> m, str |-> << >>]

JArray == [type |-> "array", members |-> << >>, str |-> << >>]

\* A line of input: text that parses to `doc`, or text that is no JSON document.
JsonLine(doc) == [parses |-> TRUE, doc |-> doc]

NotJsonLine == [parses |-> FALSE, doc |-> JNull]

json_parse_string(line) == IF line.parses THEN line.doc ELSE JNull

json_value_get_object(v) == IF v.type = "object" THEN v ELSE JNull

HasMember(obj, name) == obj.type = "object" /\ name \in DOMAIN obj.members

json_object_get_object(obj, name) ==
    IF HasMember(obj, name) /\ obj.members[name].type = "object"
    THEN obj.members[name]
    ELSE JNull

\* A (const char *): NULL, or the characters of the string.
NullStr == [isNull |-> TRUE, chars |-> << >>]

Str(s) == [isNull |-> FALSE, chars |-> s]

json_object_get_string(obj, name) ==
    IF HasMember(obj, name) /\ obj.members[name].type = "string"
    THEN Str(obj.members[name].str)
    ELSE NullStr

----------------------------------------------------------------------------
(* The event sink *)

Handles == {"TxDone", "TxTimeout", "RxDone", "RxTimeout", "RxError", "CadDone"}

\* RadioEvents_t: for each handle, whether the function pointer is set.
FullSink == [h \in Handles |-> TRUE]

SinkWithout(h) == [FullSink EXCEPT ![h] = FALSE]

NullEvents == [isNull |-> TRUE, handle |-> [h \in Handles |-> FALSE]]

EventsPtr(sink) == [isNull |-> FALSE, handle |-> sink]

\* The values of the `events` argument of RadioInit that are tried.
EventSinks ==
    {NullEvents, EventsPtr(FullSink), EventsPtr(SinkWithout("TxDone")),
     EventsPtr(SinkWithout("RxDone")), EventsPtr(SinkWithout("RxTimeout"))}

\* RadioEvents->h( ... ) can be called: the pointer and the handle are both set.
CanCall(h) == ~RadioEvents.isNull /\ RadioEvents.handle[h]

----------------------------------------------------------------------------
(* The record of a call *)

\* op and args name the call; cbs are the callbacks it invoked on the event sink, in
\* order; out is what it printed; stored is the number of bytes it stored through
\* rx_buffer; outcome is "returned", "exit" (the call ended the process with
\* exit( 0 )) or "crash" (the call ended the process abnormally).
Call(op, args, cbs, out, stored, outcome) ==
    [op |-> op, args |-> args, cbs |-> cbs, out |-> out, stored |-> stored,
     outcome |-> outcome]

NoArgs == << >>

Running == proc = "running"

----------------------------------------------------------------------------
(* Channel state *)

Max(a, b) == IF a >= b THEN a ELSE b

Min(a, b) == IF a <= b THEN a ELSE b

RECURSIVE Pow2(_)
Pow2(n) == IF n = 0 THEN 1 ELSE 2 * Pow2(n - 1)

\* The p with 2^p <= freq / 10^6 < 2^(p+1), for freq of at least 1 MHz.
RECURSIVE MHzExponent(_, _)
MHzExponent(freq, p) ==
    IF freq \div 1000000 < Pow2(p + 1) THEN p ELSE MHzExponent(freq, p + 1)

\* ( float )( freq / 1000000.0 ): the nearest float to freq / 10^6.  A float of
\* exponent p has 23 - p fraction bits; the result is m / 2^frac.  10^6 is
\* 2^6 * 15625, and the division is split so that no intermediate exceeds 2^31.
FloatMHz(freq) ==
    IF freq = 0 THEN [m |-> 0, frac |-> 0]
    ELSE LET p     == MHzExponent(freq, 0)
             scale == Pow2(17 - p)
             q     == freq \div 15625
             r     == freq % 15625
             whole == (r * scale) \div 15625
             rem   == (r * scale) % 15625
         IN  [m    |-> q * scale + whole + (IF 2 * rem > 15625 THEN 1 ELSE 0),
              frac |-> 23 - p]

\* The channel frequencies that are tried, in Hz.
Freqs == {868100000, 915000000}

----------------------------------------------------------------------------
(* Inputs of the packet bridge *)

ByteSamples == {0, 72, 255}

RECURSIVE SeqsUpTo(_, _)
SeqsUpTo(S, n) ==
    IF n = 0 THEN {<< >>}
    ELSE LET shorter == SeqsUpTo(S, n - 1)
         IN  shorter \cup {Append(q, x) : q \in {t \in shorter : Len(t) = n - 1}, x \in S}

HelloBytes == <<72, 101, 108, 108, 111>>

\* A buffer of the largest size a uint8_t size can name.
LongBuffer == [i \in 1..255 |-> (i * 7) % 256]

\* The ( buffer, size ) pairs Send is tried with: size is at most the length of
\* the buffer.
SendCalls ==
    {c \in (SeqsUpTo(ByteSamples, MaxLen) \X (0..MaxLen)) : c[2] <= Len(c[1])}
        \cup {<<HelloBytes, 5>>, <<LongBuffer, 255>>, <<LongBuffer, 254>>}

\* n copies of s, one after the other
Repeat(s, n) == [i \in 1..(n * Len(s)) |-> s[((i - 1) % Len(s)) + 1]]

HelloText == <<"S", "G", "V", "s", "b", "G", "8", "=">>

\* Text that decodes to exactly RxBufferSize bytes, and to one byte more.
FullText == Repeat(<<"q", "r", "v", "M">>, RxBufferSize \div 3) \o <<"3", "u", "8", "=">>

OverlongText == Repeat(<<"q", "r", "v", "M">>, RxBufferSize \div 3 + 1)

\* Text that is no base64: a length that is no multiple of 4, a character outside
\* the alphabet, padding in the middle.
MalformedTexts == {<<"S", "G", "V">>, <<"S", "G", "!", "s">>, <<"S", "=", "=", "=">>}

DataStrings ==
    {<< >>, <<"A", "A", "=", "=">>, <<"/", "w", "B", "I">>, HelloText, FullText, OverlongText}
        \cup MalformedTexts

\* {"txpk":{"data":"<s>"}} and the line feed that ends it
DataLineChars(s) == 17 + Len(s) + 3 + 1

DataLine(s) == JsonLine(JObject([txpk |-> JObject([data |-> JString(s)])]))

\* {"foo":1}
FooLine == JsonLine(JObject([foo |-> JNumber]))

\* {"txpk":1}
TxpkNumberLine == JsonLine(JObject([txpk |-> JNumber]))

\* {"txpk":{"size":1}}
TxpkNoDataLine == JsonLine(JObject([txpk |-> JObject([size |-> JNumber])]))

\* {"txpk":{"data":1}}
TxpkDataNumberLine == JsonLine(JObject([txpk |-> JObject([data |-> JNumber])]))

\* [1]
ArrayLine == JsonLine(JArray)

InputLines ==
    {NotJsonLine, ArrayLine, FooLine, TxpkNumberLine, TxpkNoDataLine, TxpkDataNumberLine}
        \cup {DataLine(s) : s \in {t \in DataStrings : DataLineChars(t) <= MaxLineChars}}

\* What the input channel holds when Rx polls it: poll( ) fails, the stream is at
\* its end, or a line is there.
NoLine == NotJsonLine

RxInputs ==
    {[kind |-> "pollfail", line |-> NoLine], [kind |-> "eof", line |-> NoLine],
     [kind |-> "quiet", line |-> NoLine]}
        \cup {[kind |-> "line", line |-> l] : l \in InputLines}

RxTimeouts == {0, 3000}

\* The two codec calls of radio.c, tabulated over the inputs that are tried.
EncodeTable == [b \in {SubSeq(c[1], 1, c[2]) : c \in SendCalls} |-> B64Encode(b)]

base64_encode(bytes) == EncodeTable[bytes]

DecodeTable == [t \in DataStrings |-> B64Decode(t)]

base64_decode(str) == DecodeTable[str]

----------------------------------------------------------------------------
(* Initial state: the globals of radio.c as the loader leaves them *)

\* MockRadio_t, zero-initialised.  An enumeration field that radio.c only stores
\* holds the name of its enumerator, "0" before the first store; the fields radio.c
\* computes with hold numbers.  ModulationParams.Params and PacketParams.Params
\* hold a Gfsk and a LoRa member side by side.
ZeroMockRadio ==
    [ModulationParams |->
        [PacketType |-> "0",
         Gfsk |-> [BitRate |-> 0, Fdev |-> 0, ModulationShaping |-> "0", Bandwidth |-> 0],
         LoRa |-> [SpreadingFactor |-> 0, Bandwidth |-> 0, CodingRate |-> 0,
                   LowDatarateOptimize |-> 0]],
     PacketParams |->
        [PacketType |-> "0",
         Gfsk |-> [PreambleLength |-> 0, PreambleMinDetect |-> "0", SyncWordLength |-> 0,
                   AddrComp |-> "0", HeaderType |-> "0", CrcLength |-> "0", DcFree |-> "0"],
         LoRa |-> [PreambleLength |-> 0, HeaderType |-> 0, PayloadLength |-> 0,
                   CrcMode |-> 0, InvertIQ |-> 0]]]

Init ==
    /\ RadioEvents = NullEvents
    /\ IrqFired = FALSE
    /\ frequency = FloatMHz(0)
    /\ MockRadio = ZeroMockRadio
    /\ TxTimeout = 0
    /\ OperatingMode = "MODE_SLEEP"
    /\ rx_buffer = << >>
    /\ proc = "running"
    /\ last = Call("none", NoArgs, << >>, << >>, 0, "returned")

----------------------------------------------------------------------------
(* Driver facade: init and channel *)

\* A variant of RadioInit that keeps the event sink of the first call.
RadioInit_Once(events) ==
    /\ Running
    /\ RadioEvents' = IF RadioEvents.isNull THEN events ELSE RadioEvents
    /\ IrqFired' = FALSE
    /\ last' = Call("RadioInit", [events |-> events], << >>, << >>, 0, "returned")
    /\ UNCHANGED <<frequency, MockRadio, TxTimeout, OperatingMode, rx_buffer, proc>>

\* void RadioInit( RadioEvents_t *events )
RadioInit(events) ==
    /\ Running
    /\ RadioEvents' = events
    /\ IrqFired' = FALSE
    /\ last' = Call("RadioInit", [events |-> events], << >>, << >>, 0, "returned")
    /\ UNCHANGED <<frequency, MockRadio, TxTimeout, OperatingMode, rx_buffer, proc>>

\* void RadioSetChannel( uint32_t freq )
RadioSetChannel(freq) ==
    /\ Running
    /\ frequency' = FloatMHz(freq)
    /\ last' = Call("RadioSetChannel", [freq |-> freq], << >>, << >>, 0, "returned")
    /\ UNCHANGED <<RadioEvents, IrqFired, MockRadio, TxTimeout, OperatingMode,
                   rx_buffer, proc>>

----------------------------------------------------------------------------
(* Packet bridge: Send *)

\* A call through a null RadioEvents, or through a handle that is not set, is a
\* jump through a null pointer: on the hosted build that Rx's poll( ) and stdin
\* imply, the process is killed.
NullCall == "crash"

\* The line Send prints.  time and tmst are readings of the wall clock and are
\* left out; freq is printed from the stored float.
UplinkLine(size, data) ==
    [chan |-> 2, rfch |-> 0, freq |-> frequency, stat |-> 1, modu |-> "LORA",
     datr |-> "SF7BW125", codr |-> "4/6", rssi |-> -35, lsnr |-> "5.1",
     size |-> size, data |-> data]

\* The callbacks of a call that ends by invoking handle h with record cb.
InvokeLast(h, cb) == IF CanCall(h) THEN <<cb>> ELSE << >>

OutcomeOfInvoke(h) == IF CanCall(h) THEN "returned" ELSE NullCall

ProcAfter(outcome) ==
    CASE outcome = "returned" -> "running"
      [] outcome = "exit" -> "exited"
      [] outcome = "blocked" -> "blocked"
      [] OTHER -> "crashed"

\* A variant of RadioSend that prints the line and leaves the TxDone report to a
\* later poll, as a driver with a transmitter does.
RadioSend_Deferred(buffer, size) ==
    /\ Running
    /\ last' = Call("RadioSend", [buffer |-> buffer, size |-> size], << >>,
                    <<UplinkLine(size, base64_encode(SubSeq(buffer, 1, size)))>>, 0,
                    "returned")
    /\ UNCHANGED <<RadioEvents, IrqFired, frequency, MockRadio, TxTimeout,
                   OperatingMode, rx_buffer, proc>>

\* void RadioSend( uint8_t *buffer, uint8_t size )
RadioSend(buffer, size) ==
    LET data == base64_encode(SubSeq(buffer, 1, size))
        outcome == OutcomeOfInvoke("TxDone")
    IN  /\ Running
        /\ last' = Call("RadioSend", [buffer |-> buffer, size |-> size],
                        InvokeLast("TxDone", [name |-> "TxDone"]),
                        <<UplinkLine(size, data)>>, 0, outcome)
        /\ proc' = ProcAfter(outcome)
        /\ UNCHANGED <<RadioEvents, IrqFired, frequency, MockRadio, TxTimeout,
                       OperatingMode, rx_buffer>>

----------------------------------------------------------------------------
(* Packet bridge: Rx *)

\* base64_decode writes through rx_buffer with no capacity: more than RxBufferSize
\* decoded bytes run over the end of the array.  The build may lay out memory so
\* that the write is silent, or so that it kills the process.
OverrunOutcomes == {"overrun", "crash"}

\* output_length is a local without initialiser; when base64_decode fails and
\* leaves it alone, RxDone is handed whatever the stack held.
UninitLengths == {0, 5, RxBufferSize + 88}

RxResult(cbs, outcome, buffer, stored, hex) ==
    [cbs |-> cbs, outcome |-> outcome, buffer |-> buffer, stored |-> stored, hex |-> hex]

\* A variant of RxOnNoInput that reports the missing input as a timeout and
\* returns to the caller instead of ending the process.
RxOnNoInput_TimesOut ==
    RxResult(InvokeLast("RxTimeout", [name |-> "RxTimeout"]),
             OutcomeOfInvoke("RxTimeout"), rx_buffer, 0, << >>)

\* poll( ) != 1, or fgets( ) == NULL: exit( 0 )
RxOnNoInput == RxResult(<< >>, "exit", rx_buffer, 0, << >>)

\* root_val == NULL or txpk_obj == NULL: RadioEvents->RxTimeout( )
RxOnNoTxpk ==
    RxResult(InvokeLast("RxTimeout", [name |-> "RxTimeout"]),
             OutcomeOfInvoke("RxTimeout"), rx_buffer, 0, << >>)

\* str == NULL: strlen( str ) reads through a null pointer
RxOnNullStr == RxResult(<< >>, "crash", rx_buffer, 0, << >>)

\* RadioEvents->RxDone( rx_buffer, output_length, -110, 5 ), with `mem` the bytes
\* that stand at rx_buffer
RxDoneCall(mem, output_length) ==
    [name |-> "RxDone", payload |-> SubSeq(mem, 1, Min(output_length, Len(mem))),
     size |-> output_length, rssi |-> RxRssi, snr |-> RxSnr]

\* str != NULL: decode, print, RxDone
RxOnData(chars, ub, garbage) ==
    LET dec == base64_decode(chars)
        mem == IF dec.ok THEN dec.bytes ELSE rx_buffer
        output_length == IF dec.ok THEN Len(dec.bytes) ELSE garbage
        buffer == SubSeq(mem, 1, Min(Len(mem), RxBufferSize))
        stored == IF dec.ok THEN Len(dec.bytes) ELSE 0
    IN  IF dec.ok /\ Len(dec.bytes) > RxBufferSize /\ ub = "crash"
        THEN RxResult(<< >>, "crash", buffer, stored, << >>)
        ELSE RxResult(InvokeLast("RxDone", RxDoneCall(mem, output_length)),
                      OutcomeOfInvoke("RxDone"), buffer, stored,
                      <<[text |-> "hex", size |-> output_length]>>)

\* The body of RadioRx after the timeout line is printed.
RxBody(inp, ub, garbage) ==
    IF inp.kind # "line" THEN RxOnNoInput
    ELSE LET root_val == json_parse_string(inp.line)
             txpk_obj == json_object_get_object(json_value_get_object(root_val), "txpk")
             str      == json_object_get_string(txpk_obj, "data")
         IN  IF root_val # JNull /\ txpk_obj # JNull
             THEN IF str.isNull THEN RxOnNullStr
                  ELSE RxOnData(str.chars, ub, garbage)
             ELSE RxOnNoTxpk

\* The data string Rx hands to base64_decode, when it gets that far.
RxDataOf(inp) ==
    json_object_get_string(
        json_object_get_object(json_value_get_object(json_parse_string(inp.line)), "txpk"),
        "data")

RxDecodes(inp) == inp.kind = "line" /\ ~RxDataOf(inp).isNull

\* The outcomes of the undefined behaviour that input `inp` leads to, if any.
OverrunChoices(inp) ==
    IF RxDecodes(inp) /\ base64_decode(RxDataOf(inp).chars).ok
                      /\ Len(base64_decode(RxDataOf(inp).chars).bytes) > RxBufferSize
    THEN OverrunOutcomes ELSE {"none"}

GarbageChoices(inp) ==
    IF RxDecodes(inp) /\ ~base64_decode(RxDataOf(inp).chars).ok
    THEN UninitLengths ELSE {0}

\* A variant of RxOnQuiet that gives up after `timeout` milliseconds, when that
\* is not zero, and reports it.
RxOnQuiet_Deadline(timeout) ==
    IF timeout > 0
    THEN RxResult(InvokeLast("RxTimeout", [name |-> "RxTimeout"]),
                  OutcomeOfInvoke("RxTimeout"), rx_buffer, 0, << >>)
    ELSE RxResult(<< >>, "blocked", rx_buffer, 0, << >>)

\* poll( input, 1, -1 ) with nothing to read and the input open: the wait has no
\* end, whatever `timeout` is.
RxOnQuiet(timeout) == RxResult(<< >>, "blocked", rx_buffer, 0, << >>)

\* void RadioRx( uint32_t timeout )
RadioRx(timeout, inp, ub, garbage) ==
    LET r == IF inp.kind = "quiet" THEN RxOnQuiet(timeout) ELSE RxBody(inp, ub, garbage)
    IN  /\ Running
        /\ rx_buffer' = r.buffer
        /\ last' = Call("RadioRx", [timeout |-> timeout, input |-> inp], r.cbs,
                        <<[text |-> "Radio Rx with timeout", size |-> timeout]>> \o r.hex,
                        r.stored, r.outcome)
        /\ proc' = ProcAfter(r.outcome)
        /\ UNCHANGED <<RadioEvents, IrqFired, frequency, MockRadio, TxTimeout,
                       OperatingMode>>

----------------------------------------------------------------------------
(* IRQ dispatcher *)

\* bool RxContinuous = false; nothing assigns it
RxContinuous == FALSE

\* uint16_t irqRegs = 0: the pending conditions, as the set of the IRQ_ masks
\* whose bit is set
irqRegs == {}

\* The state of a dispatch under way: the callbacks made so far, the operating
\* mode, and whether the dispatch is still running.
IrqState(cbs, mode, outcome) == [cbs |-> cbs, mode |-> mode, outcome |-> outcome]

\* RadioEvents->h( ... ) without a test of the pointer or the handle
IrqCallUnguarded(d, h) ==
    IF CanCall(h) THEN IrqState(Append(d.cbs, [name |-> h]), d.mode, "returned")
    ELSE IrqState(d.cbs, d.mode, NullCall)

\* if( ( RadioEvents != NULL ) && ( RadioEvents->h != NULL ) ) RadioEvents->h( ... )
IrqCallGuarded(d, h) ==
    IF CanCall(h) THEN IrqState(Append(d.cbs, [name |-> h]), d.mode, "returned") ELSE d

IrqStandby(d) == IrqState(d.cbs, "MODE_STDBY_RC", d.outcome)

\* The if statements of RadioIrqProcess on irqRegs = regs, one after the other;
\* the test of the handle of TxDone is commented out.
IrqDispatch(regs, mode) ==
    LET d0 == IrqState(<< >>, mode, "returned")
        d1 == IF "IRQ_TX_DONE" \in regs THEN IrqCallUnguarded(d0, "TxDone") ELSE d0
        d2 == IF d1.outcome = "returned" /\ "IRQ_RX_DONE" \in regs
              THEN IrqCallGuarded(IF RxContinuous THEN d1 ELSE IrqStandby(d1), "RxDone")
              ELSE d1
        d3 == IF d2.outcome = "returned" /\ "IRQ_CRC_ERROR" \in regs
              THEN IrqCallGuarded(IF RxContinuous THEN d2 ELSE IrqStandby(d2), "RxError")
              ELSE d2
        d4 == IF d3.outcome = "returned" /\ "IRQ_CAD_DONE" \in regs
              THEN IrqCallGuarded(IrqStandby(d3), "CadDone")
              ELSE d3
        d5 == IF d4.outcome = "returned" /\ "IRQ_RX_TX_TIMEOUT" \in regs
              THEN IF d4.mode = "MODE_TX"
                   THEN IrqCallGuarded(IrqStandby(d4), "TxTimeout")
                   ELSE IF d4.mode = "MODE_RX" THEN IrqCallGuarded(d4, "RxTimeout")
                   ELSE d4
              ELSE d4
    IN  IF d5.outcome = "returned" /\ "IRQ_HEADER_ERROR" \in regs
        THEN IrqCallGuarded(d5, "RxTimeout")
        ELSE d5

\* A variant of RadioIrqProcess that finds a finished transmission at every poll.
RadioIrqProcess_TxDone ==
    LET d == IrqDispatch({"IRQ_TX_DONE"}, OperatingMode)
    IN  /\ Running
        /\ IrqFired' = FALSE
        /\ OperatingMode' = d.mode
        /\ last' = Call("RadioIrqProcess", NoArgs, d.cbs, << >>, 0, d.outcome)
        /\ proc' = ProcAfter(d.outcome)
        /\ UNCHANGED <<RadioEvents, frequency, MockRadio, TxTimeout, rx_buffer>>

\* void RadioIrqProcess( void ): poll_timers( ) belongs to the timer library and
\* touches nothing of the driver; the dispatch runs when IrqFired is set, on
\* irqRegs.
RadioIrqProcess ==
    LET d == IF IrqFired THEN IrqDispatch(irqRegs, OperatingMode)
             ELSE IrqState(<< >>, OperatingMode, "returned")
    IN  /\ Running
        /\ IrqFired' = FALSE
        /\ OperatingMode' = d.mode
        /\ last' = Call("RadioIrqProcess", NoArgs, d.cbs, << >>, 0, d.outcome)
        /\ proc' = ProcAfter(d.outcome)
        /\ UNCHANGED <<RadioEvents, frequency, MockRadio, TxTimeout, rx_buffer>>

\* void RadioOnDioIrq( void* context ): the body is empty
RadioOnDioIrq ==
    /\ Running
    /\ last' = Call("RadioOnDioIrq", NoArgs, << >>, << >>, 0, "returned")
    /\ UNCHANGED <<RadioEvents, IrqFired, frequency, MockRadio, TxTimeout,
                   OperatingMode, rx_buffer, proc>>

----------------------------------------------------------------------------
(* The packet bridge specification *)

NextBridge ==
    \/ \E events \in EventSinks : RadioInit(events)
    \/ \E freq \in Freqs : RadioSetChannel(freq)
    \/ \E c \in SendCalls : RadioSend(c[1], c[2])
    \/ \E timeout \in RxTimeouts, inp \in RxInputs :
          \E ub \in OverrunChoices(inp), garbage \in GarbageChoices(inp) :
              RadioRx(timeout, inp, ub, garbage)
    \/ RadioIrqProcess

SpecBridge == Init /\ [][NextBridge]_vars

----------------------------------------------------------------------------
(* Parameter model *)

\* uint8_t MaxPayloadLength = 0xFF; nothing assigns it
MaxPayloadLength == 255

\* const RadioLoRaBandwidths_t Bandwidths[] = { LORA_BW_125, LORA_BW_250, LORA_BW_500 }
Bandwidths == <<LORA_BW_125, LORA_BW_250, LORA_BW_500>>

\* void RadioStandby( void ): the body is empty; the operating mode after the
\* call is the operating mode before it.
StandbyMode(mode) == mode

\* A variant of LowDatarateOptimize that forgets the 250 kHz, SF12 case.
LowDatarateOptimize_Only125(bandwidth, datarate) ==
    IF bandwidth = 0 /\ (datarate = 11 \/ datarate = 12) THEN 1 ELSE 0

\* A variant of LoRaPreambleLength that applies the floor to SF5 alone.
LoRaPreambleLength_OnlySF5(sf, preambleLen) ==
    IF sf = 5
    THEN IF preambleLen < 12 THEN 12 ELSE preambleLen
    ELSE preambleLen

\* The test of RadioSetTxConfig on its bandwidth and datarate arguments.
LowDatarateOptimize(bandwidth, datarate) ==
    IF \/ bandwidth = 0 /\ (datarate = 11 \/ datarate = 12)
       \/ bandwidth = 1 /\ datarate = 12
    THEN 1 ELSE 0

\* The preamble length RadioSetTxConfig stores for LoRa.
LoRaPreambleLength(sf, preambleLen) ==
    IF sf = LORA_SF5 \/ sf = LORA_SF6
    THEN IF preambleLen < PreambleFloor THEN PreambleFloor ELSE preambleLen
    ELSE preambleLen

BoolToInt(b) == IF b THEN 1 ELSE 0

\* A variant of FskTxConfig for a MockRadio whose FSK and LoRa parameters share
\* their storage: writing the FSK set wipes the LoRa set.
FskTxConfig_Shared(mr, a) ==
    [mr EXCEPT
        !.ModulationParams.PacketType = "PACKET_TYPE_GFSK",
        !.ModulationParams.Gfsk =
            [BitRate |-> a.datarate, Fdev |-> a.fdev,
             ModulationShaping |-> "MOD_SHAPING_G_BT_1", Bandwidth |-> a.bandwidth],
        !.ModulationParams.LoRa =
            [SpreadingFactor |-> 0, Bandwidth |-> 0, CodingRate |-> 0,
             LowDatarateOptimize |-> 0],
        !.PacketParams.PacketType = "PACKET_TYPE_GFSK",
        !.PacketParams.Gfsk =
            [PreambleLength |-> a.preambleLen * 8,
             PreambleMinDetect |-> "RADIO_PREAMBLE_DETECTOR_08_BITS",
             SyncWordLength |-> 3 * 8,
             AddrComp |-> "RADIO_ADDRESSCOMP_FILT_OFF",
             HeaderType |-> IF a.fixLen THEN "RADIO_PACKET_FIXED_LENGTH"
                                        ELSE "RADIO_PACKET_VARIABLE_LENGTH",
             CrcLength |-> IF a.crcOn THEN "RADIO_CRC_2_BYTES_CCIT" ELSE "RADIO_CRC_OFF",
             DcFree |-> "RADIO_DC_FREEWHITENING"],
        !.PacketParams.LoRa =
            [PreambleLength |-> 0, HeaderType |-> 0, PayloadLength |-> 0,
             CrcMode |-> 0, InvertIQ |-> 0]]

\* case MODEM_FSK of RadioSetTxConfig
FskTxConfig(mr, a) ==
    [mr EXCEPT
        !.ModulationParams.PacketType = "PACKET_TYPE_GFSK",
        !.ModulationParams.Gfsk =
            [BitRate |-> a.datarate, Fdev |-> a.fdev,
             ModulationShaping |-> "MOD_SHAPING_G_BT_1", Bandwidth |-> a.bandwidth],
        !.PacketParams.PacketType = "PACKET_TYPE_GFSK",
        !.PacketParams.Gfsk =
            [PreambleLength |-> a.preambleLen * 8,
             PreambleMinDetect |-> "RADIO_PREAMBLE_DETECTOR_08_BITS",
             SyncWordLength |-> 3 * 8,
             AddrComp |-> "RADIO_ADDRESSCOMP_FILT_OFF",
             HeaderType |-> IF a.fixLen THEN "RADIO_PACKET_FIXED_LENGTH"
                                        ELSE "RADIO_PACKET_VARIABLE_LENGTH",
             CrcLength |-> IF a.crcOn THEN "RADIO_CRC_2_BYTES_CCIT" ELSE "RADIO_CRC_OFF",
             DcFree |-> "RADIO_DC_FREEWHITENING"]]

\* case MODEM_LORA of RadioSetTxConfig, for a bandwidth selector inside Bandwidths
LoRaTxConfig(mr, a) ==
    [mr EXCEPT
        !.ModulationParams.PacketType = "PACKET_TYPE_LORA",
        !.ModulationParams.LoRa =
            [SpreadingFactor |-> a.datarate,
             Bandwidth |-> Bandwidths[a.bandwidth + 1],
             CodingRate |-> a.coderate,
             LowDatarateOptimize |-> LowDatarateOptimize(a.bandwidth, a.datarate)],
        !.PacketParams.PacketType = "PACKET_TYPE_LORA",
        !.PacketParams.LoRa =
            [PreambleLength |-> LoRaPreambleLength(a.datarate, a.preambleLen),
             HeaderType |-> BoolToInt(a.fixLen),
             PayloadLength |-> MaxPayloadLength,
             CrcMode |-> BoolToInt(a.crcOn),
             InvertIQ |-> BoolToInt(a.iqInverted)]]

\* The switch of RadioSetTxConfig.
TxConfigured(mr, a) ==
    IF a.modem = MODEM_FSK THEN FskTxConfig(mr, a)
    ELSE IF a.modem = MODEM_LORA THEN LoRaTxConfig(mr, a)
    ELSE mr

\* void RadioSetTxConfig( modem, power, fdev, bandwidth, datarate, coderate,
\*                        preambleLen, fixLen, crcOn, freqHopOn, hopPeriod,
\*                        iqInverted, timeout ), `a` the record of its arguments
RadioSetTxConfig(a) ==
    /\ Running
    /\ MockRadio' = TxConfigured(MockRadio, a)
    /\ OperatingMode' = IF a.modem \in {MODEM_FSK, MODEM_LORA}
                        THEN StandbyMode(OperatingMode) ELSE OperatingMode
    /\ TxTimeout' = a.timeout
    /\ last' = Call("RadioSetTxConfig", a, << >>, << >>, 0, "returned")
    /\ UNCHANGED <<RadioEvents, IrqFired, frequency, rx_buffer, proc>>

\* void RadioSetRxConfig( modem, bandwidth, datarate, coderate, bandwidthAfc,
\*                        preambleLen, symbTimeout, fixLen, payloadLen, crcOn,
\*                        freqHopOn, hopPeriod, iqInverted, rxContinuous ): the body
\* is a comment
RadioSetRxConfig(a) ==
    /\ Running
    /\ last' = Call("RadioSetRxConfig", a, << >>, << >>, 0, "returned")
    /\ UNCHANGED <<RadioEvents, IrqFired, frequency, MockRadio, TxTimeout,
                   OperatingMode, rx_buffer, proc>>

\* void MockSetOperatingMode( RadioOperatingModes_t mode )
MockSetOperatingMode(mode) ==
    /\ Running
    /\ OperatingMode' = mode
    /\ last' = Call("MockSetOperatingMode", [mode |-> mode], << >>, << >>, 0, "returned")
    /\ UNCHANGED <<RadioEvents, IrqFired, frequency, MockRadio, TxTimeout,
                   rx_buffer, proc>>

----------------------------------------------------------------------------
(* Inputs of the parameter model *)

\* The requested preamble lengths: from just below the floor upwards.
PreambleLens == (PreambleFloor - 1)..(PreambleFloor - 1 + PreambleSpan)

\* LoRa: bandwidth selectors 0, 1, 2 (3 is "Reserved" and Bandwidths has three
\* entries), spreading factors 5 to 12.
LoRaSelectors == 0..2

SpreadingFactors == 5..12

TxArgs(modem, fdev, bandwidth, datarate, coderate, preambleLen, fixLen, crcOn) ==
    [modem |-> modem, power |-> 14, fdev |-> fdev, bandwidth |-> bandwidth,
     datarate |-> datarate, coderate |-> coderate, preambleLen |-> preambleLen,
     fixLen |-> fixLen, crcOn |-> crcOn, freqHopOn |-> FALSE, hopPeriod |-> 0,
     iqInverted |-> FALSE, timeout |-> 3000]

LoRaTxArgs ==
    {TxArgs(MODEM_LORA, 0, bw, sf, 1, pl, fl, TRUE) :
        bw \in LoRaSelectors, sf \in SpreadingFactors, pl \in PreambleLens, fl \in BOOLEAN}

FskTxArgs ==
    {TxArgs(MODEM_FSK, 25000, 0, 50000, 0, 5, fl, crc) : fl \in BOOLEAN, crc \in BOOLEAN}

\* const FskBandwidth_t FskBandwidths[]: the bandwidth column; the last entry
\* is the one the source marks as invalid.
FskBandwidths ==
    <<4800, 5800, 7300, 9700, 11700, 14600, 19500, 23400, 29300, 39000, 46900,
      58600, 78200, 93800, 117300, 156200, 187200, 234300, 312000, 373600,
      467000, 500000>>

\* The FSK bandwidths that are requested: the first of the table, one between
\* two entries, and one above the last valid entry.
FskBandwidthsTried == {FskBandwidths[1], 50000, FskBandwidths[22]}

FskBandwidthArgs ==
    {TxArgs(MODEM_FSK, 25000, bw, 50000, 0, 5, FALSE, TRUE) : bw \in FskBandwidthsTried}

RxArgs(modem, bandwidth, datarate, coderate, preambleLen) ==
    [modem |-> modem, bandwidth |-> bandwidth, datarate |-> datarate,
     coderate |-> coderate, bandwidthAfc |-> 0, preambleLen |-> preambleLen,
     symbTimeout |-> 5, fixLen |-> FALSE, payloadLen |-> 0, crcOn |-> FALSE,
     freqHopOn |-> FALSE, hopPeriod |-> 0, iqInverted |-> TRUE, rxContinuous |-> FALSE]

RxConfigArgs ==
    {RxArgs(MODEM_LORA, 0, 12, 1, PreambleFloor - 1), RxArgs(MODEM_LORA, 2, 6, 1, PreambleFloor - 1),
     RxArgs(MODEM_FSK, 50000, 50000, 0, 5)}

\* The operating modes MockSetOperatingMode is tried with.
ModesTried == {"MODE_STDBY_RC", "MODE_TX", "MODE_RX"}

----------------------------------------------------------------------------
(* The parameter model specification *)

NextConfig ==
    \/ \E a \in LoRaTxArgs \cup FskTxArgs \cup FskBandwidthArgs : RadioSetTxConfig(a)
    \/ \E a \in RxConfigArgs : RadioSetRxConfig(a)
    \/ \E mode \in ModesTried : MockSetOperatingMode(mode)

SpecConfig == Init /\ [][NextConfig]_vars

----------------------------------------------------------------------------
(* Time-on-air calculator *)

\* A uint32_t, held as its two 16-bit halves: the value is 65536 * hi + lo.
U32(v) == [hi |-> v \div 65536, lo |-> v % 65536]

UINT32_MAX == [hi |-> 65535, lo |-> 65535]

U32Leq(a, b) == a.hi < b.hi \/ (a.hi = b.hi /\ a.lo <= b.lo)

\* The conversion of a double of value 65536 * hi + lo to uint32_t.  Out of
\* range it is undefined: a build that converts through a 64-bit integer keeps
\* the low 32 bits, one that saturates gives UINT32_MAX.
ToU32(hi, lo) ==
    IF hi < 65536 THEN {[hi |-> hi, lo |-> lo]}
    ELSE {[hi |-> hi % 65536, lo |-> lo], UINT32_MAX}

\* What a call returns after it has read outside RadioLoRaSymbTime, or divided
\* by a bit rate of 0 and converted the infinity: any uint32_t.
UndefinedAirTimes == {U32(0), U32(1), UINT32_MAX}

\* radio.h: LORA_PACKET_FIXED_LENGTH (LORA_PACKET_IMPLICIT), the value a true
\* fixLen is cast to.
LORA_PACKET_FIXED_LENGTH == 1

\* static double RadioLoRaSymbTime[3][6], in microseconds: rows 125, 250 and
\* 500 kHz, columns SF12 down to SF7.
RadioLoRaSymbTime ==
    << <<32768, 16384, 8192, 4096, 2048, 1024>>,
       <<16384, 8192, 4096, 2048, 1024, 512>>,
       <<8192, 4096, 2048, 1024, 512, 256>> >>

\* rint( num / den ) in the default rounding mode: to nearest, ties to even.
Rint(num, den) ==
    LET q == num \div den
        r == num % den
    IN  IF 2 * r < den THEN q
        ELSE IF 2 * r > den THEN q + 1
        ELSE IF q % 2 = 0 THEN q ELSE q + 1

\* ceil( num / den ), den > 0
Ceil(num, den) == -((-num) \div den)

\* case MODEM_FSK of RadioTimeOnAir.  PreambleLength is used as stored (bits);
\* CrcLength is compared with RADIO_CRC_2_BYTES.  The double product
\* ( 8 * bytes / BitRate ) * 1e3 is 8000 * bytes / BitRate to within 1e-12, which
\* decides rint( ) unless the quotient is an exact half; the bit rates tried
\* (not multiples of 256) give none.
FskAirTimes(pktLen) ==
    LET g == MockRadio.PacketParams.Gfsk
        BitRate == MockRadio.ModulationParams.Gfsk.BitRate
        bytes == g.PreambleLength + (g.SyncWordLength \div 8)
                 + (IF g.HeaderType = "RADIO_PACKET_FIXED_LENGTH" THEN 0 ELSE 1)
                 + pktLen
                 + (IF g.CrcLength = "RADIO_CRC_2_BYTES" THEN 2 ELSE 0)
    IN  IF BitRate = 0 THEN UndefinedAirTimes
        ELSE {U32(Rint(8000 * bytes, BitRate))}

\* The fields of MockRadio that case MODEM_LORA computes with have enumerated
\* types (SpreadingFactor, CrcMode, HeaderType).  Whether such a type is signed
\* is the build's choice: where it is compatible with unsigned int the
\* numerator of tmp is computed modulo 2^32, where it is narrower than int (short
\* enums) or signed it is computed in int.
EnumArithmetic == {"int", "unsigned"}

\* Index of RadioLoRaSymbTime: [Bandwidth - 4][12 - SpreadingFactor]
SymbTimeRow == MockRadio.ModulationParams.LoRa.Bandwidth - 4

SymbTimeCol == 12 - MockRadio.ModulationParams.LoRa.SpreadingFactor

InSymbTimeTable == SymbTimeRow \in 0..2 /\ SymbTimeCol \in 0..5

\* 8 * pktLen - 4 * SpreadingFactor + 28 + 16 * CrcMode - ( fixed ? 20 : 0 )
LoRaNumerator(pktLen) ==
    8 * pktLen - 4 * MockRadio.ModulationParams.LoRa.SpreadingFactor + 28
    + 16 * MockRadio.PacketParams.LoRa.CrcMode
    - (IF MockRadio.PacketParams.LoRa.HeaderType = LORA_PACKET_FIXED_LENGTH THEN 20 ELSE 0)

\* 4 * ( SpreadingFactor - ( LowDatarateOptimize > 0 ? 2 : 0 ) )
LoRaDenominator ==
    4 * (MockRadio.ModulationParams.LoRa.SpreadingFactor
         - (IF MockRadio.ModulationParams.LoRa.LowDatarateOptimize > 0 THEN 2 ELSE 0))

\* ceil( ( 2^32 + num ) / den ) for num < 0: the quotient of a numerator that
\* wrapped around, computed from 2^32 = 65536 * 65536 without leaving 32 bits.
CeilWrapped(num, den) ==
    LET a == 65536 \div den
        b == 65536 % den
        Q0 == 65536 * a + (65536 * b) \div den
        R0 == (65536 * b) % den
    IN  Q0 + Ceil(R0 + num, den)

\* double nPayload = 8 + ( ( tmp > 0 ) ? tmp : 0 )
LoRaPayloadSymbols(arith, pktLen) ==
    LET num == LoRaNumerator(pktLen)
        quot == IF num < 0 /\ arith = "unsigned"
                THEN CeilWrapped(num, LoRaDenominator)
                ELSE Ceil(num, LoRaDenominator)
        tmp == quot * ((MockRadio.ModulationParams.LoRa.CodingRate % 4) + 4)
    IN  8 + (IF tmp > 0 THEN tmp ELSE 0)

\* airTime = floor( tPreamble + tPayload + 0.999 ) with the symbol time ts (in
\* microseconds, a power of two from 256 to 32768).  The sum is a multiple of
\* 0.064 ms, so sum + 0.999 is at least 0.001 from an integer and the rounding
\* of the doubles cannot move the floor.
LoRaAirTimeOf(ts, nPayload) ==
    LET preamble == (4 * MockRadio.PacketParams.LoRa.PreambleLength + 17) * (ts \div 4)
        a1 == nPayload \div 1000
        a0 == nPayload % 1000
        f == (a0 * ts + preamble + 999) \div 1000
        s == 65536 \div ts
        low == (a1 % s) * ts + f
    IN  ToU32(a1 \div s + low \div 65536, low % 65536)

\* case MODEM_LORA of RadioTimeOnAir
LoRaAirTimes(arith, pktLen) ==
    IF InSymbTimeTable
    THEN LoRaAirTimeOf(RadioLoRaSymbTime[SymbTimeRow + 1][SymbTimeCol + 1],
                       LoRaPayloadSymbols(arith, pktLen))
    ELSE UndefinedAirTimes

\* The values RadioTimeOnAir( modem, pktLen ) can return; airTime stays 0 for a
\* modem the switch has no case for.
AirTimes(modem, pktLen, arith) ==
    IF modem = MODEM_FSK THEN FskAirTimes(pktLen)
    ELSE IF modem = MODEM_LORA THEN LoRaAirTimes(arith, pktLen)
    ELSE {U32(0)}

\* A read outside RadioLoRaSymbTime lands in whatever surrounds the table, or
\* outside the mapped memory of the process.
AirOutcomes(modem) ==
    IF modem = MODEM_LORA /\ ~InSymbTimeTable THEN {"returned", "crash"} ELSE {"returned"}

\* The record of a call that returned the value ret on a build with the given
\* enumeration arithmetic.
Returned(op, args, build, ret) ==
    [op |-> op, args |-> args, cbs |-> << >>, out |-> << >>, stored |-> 0,
     outcome |-> "returned", build |-> build, ret |-> ret]

\* uint32_t RadioTimeOnAir( RadioModems_t modem, uint8_t pktLen )
RadioTimeOnAir(modem, pktLen, arith, outcome, ret) ==
    /\ Running
    /\ last' = IF outcome = "returned"
               THEN Returned("RadioTimeOnAir", [modem |-> modem, pktLen |-> pktLen],
                             arith, ret)
               ELSE Call("RadioTimeOnAir", [modem |-> modem, pktLen |-> pktLen],
                         << >>, << >>, 0, outcome)
    /\ proc' = ProcAfter(outcome)
    /\ UNCHANGED <<RadioEvents, IrqFired, frequency, MockRadio, TxTimeout,
                   OperatingMode, rx_buffer>>

----------------------------------------------------------------------------
(* Inputs of the time-on-air calculator *)

\* Payload lengths: the shortest, a LoRaWAN join request less its header, the
\* lengths of the worked examples, the longest.
PktLens == {0, 1, 2, 10, 13, 255}

AirModems == {MODEM_FSK, MODEM_LORA}

\* Spreading factors: one the symbol time table has no column for, the fastest,
\* and the three the low-data-rate test tells apart.
AirSpreadingFactors == {5, 7, 10, 11, 12}

AirLoRaArgs ==
    {TxArgs(MODEM_LORA, 0, bw, sf, cr, 8, fl, crc) :
        bw \in LoRaSelectors, sf \in AirSpreadingFactors, cr \in {1, 4},
        fl \in BOOLEAN, crc \in BOOLEAN}

----------------------------------------------------------------------------
(* The time-on-air specification *)

NextAir ==
    \/ \E a \in AirLoRaArgs \cup FskTxArgs : RadioSetTxConfig(a)
    \/ \E modem \in AirModems, pktLen \in PktLens, arith \in EnumArithmetic :
          \E outcome \in AirOutcomes(modem), ret \in AirTimes(modem, pktLen, arith) :
              RadioTimeOnAir(modem, pktLen, arith, outcome, ret)

SpecAir == Init /\ [][NextAir]_vars

----------------------------------------------------------------------------
(* The two-modem specification: configurations of both modems, interleaved
   with time-on-air requests for both *)

\* LoRa configurations: a spreading factor outside the symbol-time table, the
\* first inside it and the last; the narrowest and the widest bandwidth.
PairLoRaArgs ==
    {TxArgs(MODEM_LORA, 0, bw, sf, 1, 8, FALSE, crc) :
        bw \in {0, 2}, sf \in {5, 7, 12}, crc \in BOOLEAN}

PairPktLens == {0, 13}

NextPair ==
    \/ \E a \in PairLoRaArgs \cup FskTxArgs : RadioSetTxConfig(a)
    \/ \E modem \in {MODEM_FSK, MODEM_LORA}, pktLen \in PairPktLens, arith \in EnumArithmetic :
          \E outcome \in AirOutcomes(modem), ret \in AirTimes(modem, pktLen, arith) :
              RadioTimeOnAir(modem, pktLen, arith, outcome, ret)

SpecPair == Init /\ [][NextPair]_vars

----------------------------------------------------------------------------
(* Driver facade: pass-throughs and stubs *)

\* The record of a call that returned the value ret, whatever the build.
ReturnedValue(op, args, ret) == Returned(op, args, "any", ret)

\* A variant of RadioIsChannelFree that tunes to the channel it is asked about,
\* as the carrier sense of a radio with a receiver does.
RadioIsChannelFree_Tunes(modem, freq, rssiThresh, maxCarrierSenseTime) ==
    /\ Running
    /\ frequency' = FloatMHz(freq)
    /\ last' = ReturnedValue("RadioIsChannelFree",
                             [modem |-> modem, freq |-> freq, rssiThresh |-> rssiThresh,
                              maxCarrierSenseTime |-> maxCarrierSenseTime], TRUE)
    /\ UNCHANGED <<RadioEvents, IrqFired, MockRadio, TxTimeout, OperatingMode,
                   rx_buffer, proc>>

\* bool RadioIsChannelFree( RadioModems_t modem, uint32_t freq, int16_t rssiThresh,
\*                          uint32_t maxCarrierSenseTime )
RadioIsChannelFree(modem, freq, rssiThresh, maxCarrierSenseTime) ==
    /\ Running
    /\ last' = ReturnedValue("RadioIsChannelFree",
                             [modem |-> modem, freq |-> freq, rssiThresh |-> rssiThresh,
                              maxCarrierSenseTime |-> maxCarrierSenseTime], TRUE)
    /\ UNCHANGED <<RadioEvents, IrqFired, frequency, MockRadio, TxTimeout,
                   OperatingMode, rx_buffer, proc>>

\* bool RadioCheckRfFrequency( uint32_t frequency ): the parameter hides the
\* global of the same name
RadioCheckRfFrequency(freq) ==
    /\ Running
    /\ last' = ReturnedValue("RadioCheckRfFrequency", [frequency |-> freq], TRUE)
    /\ UNCHANGED <<RadioEvents, IrqFired, frequency, MockRadio, TxTimeout,
                   OperatingMode, rx_buffer, proc>>

\* A variant of NoOp that enters standby, as RadioStandby does on a radio that
\* has operating modes.
NoOp_EntersStandby(op, args) ==
    /\ Running
    /\ OperatingMode' = "MODE_STDBY_RC"
    /\ last' = Call(op, args, << >>, << >>, 0, "returned")
    /\ UNCHANGED <<RadioEvents, IrqFired, frequency, MockRadio, TxTimeout,
                   rx_buffer, proc>>

\* A function of the operation table whose body is empty.
NoOp(op, args) ==
    /\ Running
    /\ last' = Call(op, args, << >>, << >>, 0, "returned")
    /\ UNCHANGED <<RadioEvents, IrqFired, frequency, MockRadio, TxTimeout,
                   OperatingMode, rx_buffer, proc>>

\* void RadioSleep( void )
RadioSleep == NoOp("RadioSleep", NoArgs)

\* void RadioStandby( void )
RadioStandby == NoOp("RadioStandby", NoArgs)

\* void RadioWrite( uint16_t addr, uint8_t data )
RadioWrite(addr, data) == NoOp("RadioWrite", [addr |-> addr, data |-> data])

\* uint8_t RadioRead( uint16_t addr ): the body is empty, so the caller gets
\* whatever the return register holds.
RadioRead(addr, ret) ==
    /\ Running
    /\ last' = ReturnedValue("RadioRead", [addr |-> addr], ret)
    /\ UNCHANGED <<RadioEvents, IrqFired, frequency, MockRadio, TxTimeout,
                   OperatingMode, rx_buffer, proc>>

\* void RadioWriteBuffer( uint16_t addr, uint8_t *buffer, uint8_t size )
RadioWriteBuffer(addr, buffer, size) ==
    NoOp("RadioWriteBuffer", [addr |-> addr, buffer |-> buffer, size |-> size])

\* void RadioReadBuffer( uint16_t addr, uint8_t *buffer, uint8_t size ): nothing
\* is stored through buffer
RadioReadBuffer(addr, buffer, size) ==
    NoOp("RadioReadBuffer", [addr |-> addr, buffer |-> buffer, size |-> size])

\* void RadioSetMaxPayloadLength( RadioModems_t modem, uint8_t max )
RadioSetMaxPayloadLength(modem, max) ==
    NoOp("RadioSetMaxPayloadLength", [modem |-> modem, max |-> max])

\* void RadioSetPublicNetwork( bool enable )
RadioSetPublicNetwork(enable) == NoOp("RadioSetPublicNetwork", [enable |-> enable])

\* The stubs as one step.
RadioStub ==
    \/ RadioSleep
    \/ RadioStandby
    \/ \E addr \in {0, 1856} : RadioWrite(addr, 52)
    \/ \E addr \in {0, 1856}, ret \in ByteSamples : RadioRead(addr, ret)
    \/ RadioWriteBuffer(0, HelloBytes, 5)
    \/ RadioReadBuffer(0, HelloBytes, 5)
    \/ \E modem \in {MODEM_FSK, MODEM_LORA} : RadioSetMaxPayloadLength(modem, 64)
    \/ \E enable \in BOOLEAN : RadioSetPublicNetwork(enable)

----------------------------------------------------------------------------
(* Inputs of the facade specification: a few of each operation's *)

\* A modem kind that is neither MODEM_FSK nor MODEM_LORA.
OtherModem == 2

FacadeSinks == {NullEvents, EventsPtr(FullSink), EventsPtr(SinkWithout("RxError"))}

FacadeTxArgs ==
    {TxArgs(MODEM_LORA, 0, 0, 12, 1, 8, FALSE, TRUE),
     TxArgs(MODEM_FSK, 25000, 0, 50000, 0, 5, FALSE, TRUE),
     [TxArgs(OtherModem, 0, 1, 9, 1, 8, FALSE, TRUE) EXCEPT !.timeout = 4000]}

FacadeRxInputs ==
    {[kind |-> "eof", line |-> NoLine], [kind |-> "line", line |-> FooLine],
     [kind |-> "line", line |-> DataLine(HelloText)]}

----------------------------------------------------------------------------
(* The facade specification: every operation, few inputs *)

NextFacade ==
    \/ \E events \in FacadeSinks : RadioInit(events)
    \/ \E freq \in Freqs : RadioSetChannel(freq)
    \/ \E modem \in {MODEM_FSK, MODEM_LORA}, freq \in Freqs :
          RadioIsChannelFree(modem, freq, -80, 5)
    \/ \E freq \in Freqs : RadioCheckRfFrequency(freq)
    \/ RadioStub
    \/ \E a \in FacadeTxArgs : RadioSetTxConfig(a)
    \/ \E a \in RxConfigArgs : RadioSetRxConfig(a)
    \/ \E mode \in ModesTried : MockSetOperatingMode(mode)
    \/ \E modem \in {MODEM_FSK, MODEM_LORA, OtherModem}, arith \in EnumArithmetic :
          \E outcome \in AirOutcomes(modem), ret \in AirTimes(modem, 13, arith) :
              RadioTimeOnAir(modem, 13, arith, outcome, ret)
    \/ RadioSend(HelloBytes, 5)
    \/ \E inp \in FacadeRxInputs :
          \E ub \in OverrunChoices(inp), garbage \in GarbageChoices(inp) :
              RadioRx(3000, inp, ub, garbage)
    \/ RadioIrqProcess
    \/ RadioOnDioIrq

SpecFacade == Init /\ [][NextFacade]_vars

----------------------------------------------------------------------------
(* The whole driver *)

Next == NextBridge \/ NextConfig \/ NextAir \/ NextPair \/ NextFacade

Spec == Init /\ [][Next]_vars

----------------------------------------------------------------------------
(* Properties of the packet bridge *)

IsSend == last.op = "RadioSend"

IsRx == last.op = "RadioRx"

ReadLine == IsRx /\ last.args.input.kind = "line"

\* The one callback of the last call is handle h.
OnlyCallback(h) == Len(last.cbs) = 1 /\ last.cbs[1].name = h

\* Rx found a txpk object in the line it read.
FoundTxpk ==
    /\ ReadLine
    /\ json_object_get_object(
           json_value_get_object(json_parse_string(last.args.input.line)), "txpk") # JNull

\* Rx found a data string under txpk.
FoundData == FoundTxpk /\ ~RxDataOf(last.args.input).isNull

\* The data string is base64 for at most RxBufferSize bytes.
DataFits ==
    /\ FoundData
    /\ B64WellFormed(RxDataOf(last.args.input).chars)
    /\ Len(B64DecodeBytes(RxDataOf(last.args.input).chars)) <= RxBufferSize

DataOverlong ==
    /\ FoundData
    /\ B64WellFormed(RxDataOf(last.args.input).chars)
    /\ Len(B64DecodeBytes(RxDataOf(last.args.input).chars)) > RxBufferSize

\* What claim C1 says of a Send call.
SendDone ==
    /\ last.outcome = "returned"
    /\ OnlyCallback("TxDone")
    /\ Len(last.out) = 1
    /\ last.out[1].size = last.args.size
    /\ B64WellFormed(last.out[1].data)
    /\ B64DecodeBytes(last.out[1].data) = SubSeq(last.args.buffer, 1, last.args.size)

\* What claim C2 says of an Rx call.
RxDelivered ==
    /\ last.outcome = "returned"
    /\ OnlyCallback("RxDone")
    /\ last.cbs[1].payload = B64DecodeBytes(RxDataOf(last.args.input).chars)
    /\ last.cbs[1].size = Len(B64DecodeBytes(RxDataOf(last.args.input).chars))
    /\ last.cbs[1].rssi = -110
    /\ last.cbs[1].snr = 5

RxTimedOut == last.outcome = "returned" /\ OnlyCallback("RxTimeout")

\* C1: every Send call, in any reachable driver state, invokes exactly one TxDone
\* callback and no other before it returns, and prints one line whose size field
\* is the size argument and whose data field base64-decodes to buffer[0..size).
C1_SendInvokesTxDoneOnce == IsSend => SendDone

\* C2: when Rx reads a line with a txpk object holding well-formed base64 data
\* that decodes within the receive buffer, it invokes RxDone exactly once with
\* the decoded bytes, their number, rssi -110 and snr 5, and no other callback.
C2_RxInvokesRxDone == DataFits => RxDelivered

\* C3: when Rx reads a line that fails to parse as JSON, or that has no top-level
\* txpk object, it invokes RxTimeout exactly once, not RxDone, and returns.
C3_RxTimeoutWithoutTxpk == (ReadLine /\ ~FoundTxpk) => RxTimedOut

\* C4: when Rx reads a line whose txpk object has no data string, it invokes
\* RxTimeout exactly once, not RxDone, and returns normally.
C4_RxTimeoutWithoutData == (FoundTxpk /\ ~FoundData) => RxTimedOut

\* C5: for every line Rx can read, no more than 512 bytes are stored through the
\* receive buffer, RxDone is never handed a length above 512, and data that
\* decodes to more than 512 bytes is reported through RxError or RxTimeout.
C5_RxNeverOverrunsBuffer ==
    IsRx =>
        /\ last.stored <= 512
        /\ \A i \in 1..Len(last.cbs) :
               last.cbs[i].name = "RxDone" => last.cbs[i].size <= 512
        /\ DataOverlong =>
               /\ last.outcome = "returned"
               /\ OnlyCallback("RxError") \/ OnlyCallback("RxTimeout")

\* C6: Rx returns only after it has read a line and invoked RxDone or RxTimeout;
\* at end-of-stream or when the wait fails the process terminates inside Rx with
\* no callback invoked, and no driver operation runs after that: the terminating
\* Rx stays the most recent call.
C6_RxReturnsOrTerminates ==
    /\ (IsRx /\ last.outcome = "returned") =>
           /\ ReadLine
           /\ OnlyCallback("RxDone") \/ OnlyCallback("RxTimeout")
    /\ (IsRx /\ last.args.input.kind \in {"eof", "pollfail"}) =>
           /\ last.outcome = "exit"
           /\ last.cbs = << >>
           /\ proc = "exited"
    /\ proc = "exited" =>
           /\ IsRx
           /\ last.args.input.kind \in {"eof", "pollfail"}
    /\ (IsRx /\ last.outcome = "exit") => proc = "exited"

\* Rx met the end of the input stream and ended the process.
C6_Witness == IsRx /\ last.args.input.kind = "eof" /\ proc = "exited"

\* With a TxDone handle in the sink, Send does what C1 says.
SendWithHandle == (IsSend /\ CanCall("TxDone")) => SendDone

\* With an RxDone handle in the sink, Rx does what C2 says.
RxDoneWithHandle == (DataFits /\ CanCall("RxDone")) => RxDelivered

\* With an RxTimeout handle in the sink, Rx does what C3 says.
RxTimeoutWithHandle == (ReadLine /\ ~FoundTxpk /\ CanCall("RxTimeout")) => RxTimedOut

\* C18: over any sequence of Send and Rx calls the event sink sees the
\* callbacks in the order of the calls: every callback is made inside the call
\* that triggers it, a call that returns has made exactly one (TxDone for Send,
\* RxDone or RxTimeout for Rx), a call that does not return has made none, and
\* no other operation of the bridge makes any.
C18_CallbacksInCallOrder ==
    /\ (IsSend /\ last.outcome = "returned") => OnlyCallback("TxDone")
    /\ (IsRx /\ last.outcome = "returned") =>
           OnlyCallback("RxDone") \/ OnlyCallback("RxTimeout")
    /\ last.outcome # "returned" => last.cbs = << >>
    /\ ~(IsSend \/ IsRx) => last.cbs = << >>

\* Send reported TxDone after an earlier Rx had delivered a packet.
C18_Witness ==
    /\ IsSend
    /\ last.outcome = "returned"
    /\ OnlyCallback("TxDone")
    /\ rx_buffer = HelloBytes

----------------------------------------------------------------------------
(* Properties of the parameter model *)

IsSetTxConfig == last.op = "RadioSetTxConfig"

IsSetRxConfig == last.op = "RadioSetRxConfig"

StoredLoRa == MockRadio.ModulationParams.LoRa

\* The preamble length claim C8 names for a request.
FlooredPreamble(sf, preambleLen) ==
    IF sf \in {5, 6} /\ preambleLen < 12 THEN 12 ELSE preambleLen

\* C7: after any sequence of configuration calls the stored low-data-rate
\* optimization flag is set if and only if the stored LoRa bandwidth and
\* spreading factor are (125 kHz, SF11), (125 kHz, SF12) or (250 kHz, SF12).
C7_LowDatarateOptimizeFresh ==
    /\ StoredLoRa.LowDatarateOptimize \in {0, 1}
    /\ StoredLoRa.LowDatarateOptimize = 1 <=>
           <<StoredLoRa.Bandwidth, StoredLoRa.SpreadingFactor>> \in
               {<<LORA_BW_125, 11>>, <<LORA_BW_125, 12>>, <<LORA_BW_250, 12>>}

\* A LoRa configuration of 500 kHz, SF12 stands, with the flag clear, after an FSK
\* configuration and a later SetRxConfig call that names 125 kHz, SF12.
C7_Witness ==
    /\ IsSetRxConfig
    /\ last.args.modem = MODEM_LORA /\ last.args.bandwidth = 0 /\ last.args.datarate = 12
    /\ MockRadio.PacketParams.Gfsk.SyncWordLength = 24
    /\ StoredLoRa.Bandwidth = LORA_BW_500
    /\ StoredLoRa.SpreadingFactor = 12
    /\ StoredLoRa.LowDatarateOptimize = 0

\* C8: a LoRa SetTxConfig with spreading factor 5 or 6 stores a preamble length
\* of 12 for a request below 12 and the request itself from 12 on; with
\* spreading factor 7 to 12 it stores the request.
C8_PreambleFloor ==
    (IsSetTxConfig /\ last.args.modem = MODEM_LORA) =>
        MockRadio.PacketParams.LoRa.PreambleLength =
            FlooredPreamble(last.args.datarate, last.args.preambleLen)

\* SF6 was configured with a preamble of 11 symbols and 12 are stored.
C8_Witness ==
    /\ IsSetTxConfig
    /\ last.args.modem = MODEM_LORA
    /\ last.args.datarate = 6
    /\ last.args.preambleLen = 11
    /\ MockRadio.PacketParams.LoRa.PreambleLength = 12

\* C9: SetRxConfig populates the ModulationParams and PacketParams of the given
\* modem from its arguments, the derived flag and the preamble floor included.
C9_SetRxConfigPopulates ==
    IsSetRxConfig =>
        /\ last.args.modem = MODEM_LORA =>
               /\ StoredLoRa.SpreadingFactor = last.args.datarate
               /\ StoredLoRa.Bandwidth = Bandwidths[last.args.bandwidth + 1]
               /\ StoredLoRa.CodingRate = last.args.coderate
               /\ StoredLoRa.LowDatarateOptimize = 1 <=>
                      <<last.args.bandwidth, last.args.datarate>> \in
                          {<<0, 11>>, <<0, 12>>, <<1, 12>>}
               /\ MockRadio.PacketParams.LoRa.PreambleLength =
                      FlooredPreamble(last.args.datarate, last.args.preambleLen)
               /\ MockRadio.PacketParams.LoRa.InvertIQ = BoolToInt(last.args.iqInverted)
        /\ last.args.modem = MODEM_FSK =>
               /\ MockRadio.ModulationParams.Gfsk.BitRate = last.args.datarate
               /\ MockRadio.PacketParams.Gfsk.PreambleLength = 8 * last.args.preambleLen

\* C10: every SetTxConfig or SetRxConfig call for a recognised modem leaves the
\* operating mode in standby.
C10_ConfigLeavesStandby ==
    ((IsSetTxConfig \/ IsSetRxConfig) /\ last.args.modem \in {MODEM_FSK, MODEM_LORA}) =>
        OperatingMode \in {"MODE_STDBY_RC", "MODE_STDBY_XOSC"}

----------------------------------------------------------------------------
(* Properties of the time-on-air calculator *)

IsTimeOnAir(modem) ==
    /\ last.op = "RadioTimeOnAir"
    /\ last.args.modem = modem
    /\ last.outcome = "returned"

StoredGfsk == MockRadio.PacketParams.Gfsk

\* An FSK SetTxConfig has been applied.
FskConfigured == MockRadio.ModulationParams.Gfsk.BitRate > 0

\* A LoRa SetTxConfig with SF7 to SF12 has been applied.
LoRaConfigured ==
    /\ StoredLoRa.SpreadingFactor \in 7..12
    /\ StoredLoRa.Bandwidth \in {LORA_BW_125, LORA_BW_250, LORA_BW_500}
    /\ StoredLoRa.CodingRate \in 1..4

\* round( num / den ), halves away from zero, for num >= 0
RoundHalfAway(num, den) == (2 * num + den) \div (2 * den)

\* The FSK air time of claim C11 in ms, for the stored configuration: the
\* preamble in bytes is the stored number of bits over 8, and the CRC counts
\* when it is a 2-byte one.
ClaimedFskAirTime(L) ==
    RoundHalfAway(
        8000 * ((StoredGfsk.PreambleLength \div 8) + 3
                + (IF StoredGfsk.HeaderType = "RADIO_PACKET_VARIABLE_LENGTH" THEN 1 ELSE 0)
                + L
                + (IF StoredGfsk.CrcLength \in {"RADIO_CRC_2_BYTES", "RADIO_CRC_2_BYTES_CCIT"}
                   THEN 2 ELSE 0)),
        MockRadio.ModulationParams.Gfsk.BitRate)

\* C11: after an FSK SetTxConfig, TimeOnAir(FSK, L) is
\* round(1000 * 8 * (P + 3 + variable header + L + 2 if CRC) / R), halves away
\* from zero; R = 50000, P = 5, variable header, no CRC, L = 10 gives 3 ms.
C11_FskAirTime ==
    (IsTimeOnAir(MODEM_FSK) /\ FskConfigured) =>
        /\ last.ret = U32(ClaimedFskAirTime(last.args.pktLen))
        /\ ( /\ MockRadio.ModulationParams.Gfsk.BitRate = 50000
             /\ StoredGfsk.PreambleLength = 8 * 5
             /\ StoredGfsk.HeaderType = "RADIO_PACKET_VARIABLE_LENGTH"
             /\ StoredGfsk.CrcLength = "RADIO_CRC_OFF"
             /\ last.args.pktLen = 10 ) => last.ret = U32(3)

\* The symbol time of claim C12 in microseconds.
ClaimedSymbTime ==
    RadioLoRaSymbTime[StoredLoRa.Bandwidth - 3][13 - StoredLoRa.SpreadingFactor]

\* tmp of claim C12.
ClaimedTmp(L) ==
    Ceil(8 * L - 4 * StoredLoRa.SpreadingFactor + 28
         + 16 * MockRadio.PacketParams.LoRa.CrcMode
         - (IF MockRadio.PacketParams.LoRa.HeaderType = 1 THEN 20 ELSE 0),
         4 * (StoredLoRa.SpreadingFactor - 2 * StoredLoRa.LowDatarateOptimize))
    * ((StoredLoRa.CodingRate % 4) + 4)

\* The LoRa air time of claim C12 in ms: floor(tPreamble + tPayload + 0.999),
\* in microseconds throughout.
ClaimedLoRaAirTime(L) ==
    LET ts == ClaimedSymbTime
        tPreamble == ((4 * MockRadio.PacketParams.LoRa.PreambleLength + 17) * ts) \div 4
        tPayload == (8 + (IF ClaimedTmp(L) > 0 THEN ClaimedTmp(L) ELSE 0)) * ts
    IN  (tPreamble + tPayload + 999) \div 1000

\* C12: after a LoRa SetTxConfig with SF7..SF12, 125/250/500 kHz and coding rate
\* 1..4, TimeOnAir(LoRa, L) is floor(tPreamble + tPayload + 0.999) with
\* tPreamble = (P + 4.25) * ts, tPayload = (8 + max(tmp, 0)) * ts and tmp as the
\* claim gives it, for every payload length L.
C12_LoRaAirTime ==
    (IsTimeOnAir(MODEM_LORA) /\ LoRaConfigured) =>
        last.ret = U32(ClaimedLoRaAirTime(last.args.pktLen))

\* On a build that computes the numerator of tmp in int, TimeOnAir does what
\* C12 says.
LoRaAirTimeInInt ==
    (IsTimeOnAir(MODEM_LORA) /\ LoRaConfigured /\ last.build = "int") =>
        last.ret = U32(ClaimedLoRaAirTime(last.args.pktLen))

\* The worked example: SF7, 125 kHz, 8 symbols of preamble, 13 bytes, CRC on,
\* variable header, coding rate 1 is 46.336 ms on air, returned as 47.
LoRaAirTimeExample ==
    ( /\ IsTimeOnAir(MODEM_LORA)
      /\ StoredLoRa = [SpreadingFactor |-> 7, Bandwidth |-> LORA_BW_125,
                       CodingRate |-> 1, LowDatarateOptimize |-> 0]
      /\ MockRadio.PacketParams.LoRa.CrcMode = 1
      /\ MockRadio.PacketParams.LoRa.HeaderType = 0
      /\ last.args.pktLen = 13 ) => last.ret = U32(47)

\* C13: for a LoRa configuration with SF7..SF12 at 125/250/500 kHz, the value
\* TimeOnAir(LoRa, L) returned is at most what it returns for any longer
\* payload, a call with the same payload and no configuration in between
\* returns the same value, and the call changed no driver state (it ran, the
\* process lives on, nothing was called back).
C13_LoRaAirTimeMonotone ==
    (last.op = "RadioTimeOnAir" /\ last.args.modem = MODEM_LORA /\ LoRaConfigured) =>
        /\ last.outcome = "returned"
        /\ last.cbs = << >>
        /\ \A L2 \in PktLens :
               last.args.pktLen <= L2 =>
                   \A v \in LoRaAirTimes(last.build, L2) : U32Leq(last.ret, v)
        /\ LoRaAirTimes(last.build, last.args.pktLen) = {last.ret}

----------------------------------------------------------------------------
(* Properties of the facade *)

\* Every driver variable but the stored frequency is left as it was.
FrequencyOnly ==
    UNCHANGED <<RadioEvents, IrqFired, MockRadio, TxTimeout, OperatingMode,
                rx_buffer, proc>>

\* Every driver variable is left as it was.
NothingChanged == frequency' = frequency /\ FrequencyOnly

\* C14: IsChannelFree and CheckRfFrequency return true for every argument and in
\* every state, change no driver state and invoke no callback; SetChannel
\* changes only the stored frequency.
C14_ChannelPassThroughs ==
    [][ /\ last'.op \in {"RadioIsChannelFree", "RadioCheckRfFrequency"} =>
               /\ last'.outcome = "returned"
               /\ last'.ret = TRUE
               /\ last'.cbs = << >>
               /\ NothingChanged
        /\ last'.op = "RadioSetChannel" =>
               /\ last'.outcome = "returned"
               /\ last'.cbs = << >>
               /\ frequency' = FloatMHz(last'.args.freq)
               /\ FrequencyOnly ]_vars

\* IsChannelFree was asked about 915 MHz while the driver, configured and with an
\* event sink, is tuned to 868.1 MHz and transmitting.
C14_Witness ==
    /\ last.op = "RadioIsChannelFree"
    /\ last.args.freq = 915000000
    /\ last.ret = TRUE
    /\ frequency = FloatMHz(868100000)
    /\ OperatingMode = "MODE_TX"
    /\ ~RadioEvents.isNull
    /\ StoredLoRa.SpreadingFactor = 12

\* C15 as amended: the event-sink reference is assigned by Init and by nothing
\* else: every Init call installs the sink it is given, a later Init replaces the
\* sink of an earlier one, and every other driver operation leaves the
\* reference through which Send, Rx and IrqProcess dispatch as it was.
C15_SinkSetByInitOnly ==
    [][ /\ last'.op = "RadioInit" => RadioEvents' = last'.args.events
        /\ last'.op # "RadioInit" => RadioEvents' = RadioEvents ]_vars

\* Init was called with a null sink after an earlier Init whose sink had
\* delivered a packet through RxDone.
C15_Witness ==
    /\ last.op = "RadioInit"
    /\ last.args.events = NullEvents
    /\ RadioEvents = NullEvents
    /\ rx_buffer = HelloBytes

\* C15: the event-sink reference is set once at initialization and never
\* reassigned: once it holds a sink, no later driver operation changes it.
C15_SinkSetOnce ==
    [][ ~RadioEvents.isNull => RadioEvents' = RadioEvents ]_vars

\* The stubs claim C16 names.
StubOps ==
    {"RadioSleep", "RadioStandby", "RadioWrite", "RadioRead", "RadioWriteBuffer",
     "RadioReadBuffer", "RadioSetMaxPayloadLength", "RadioSetPublicNetwork"}

C17_UnknownModemIgnored ==
    [][ (last'.op = "RadioSetTxConfig" /\ last'.args.modem \notin {MODEM_FSK, MODEM_LORA}) =>
            /\ last'.outcome = "returned"
            /\ last'.cbs = << >>
            /\ MockRadio' = MockRadio
            /\ frequency' = frequency
            /\ TxTimeout' = TxTimeout ]_vars

\* But for the stored Tx timeout, SetTxConfig with an unknown modem kind changes
\* nothing.
UnknownModemStoresTimeout ==
    [][ (last'.op = "RadioSetTxConfig" /\ last'.args.modem \notin {MODEM_FSK, MODEM_LORA}) =>
            /\ last'.outcome = "returned"
            /\ last'.cbs = << >>
            /\ TxTimeout' = last'.args.timeout
            /\ UNCHANGED <<RadioEvents, IrqFired, frequency, MockRadio, OperatingMode,
                           rx_buffer, proc>> ]_vars

\* The conditions RadioIrqProcess dispatches on.
IrqConditions ==
    {"IRQ_TX_DONE", "IRQ_RX_DONE", "IRQ_CRC_ERROR", "IRQ_CAD_DONE",
     "IRQ_RX_TX_TIMEOUT", "IRQ_HEADER_ERROR"}

----------------------------------------------------------------------------
(* Properties of the Rx wait *)

\* The handle Rx calls on a line, told from the line alone.
ExpectedCallback(inp) ==
    IF json_object_get_object(json_value_get_object(json_parse_string(inp.line)), "txpk")
           # JNull
    THEN "RxDone" ELSE "RxTimeout"

----------------------------------------------------------------------------
(* Properties of the FSK bandwidth *)

\* The 21 bandwidths claim C21 names: 4800 Hz to 467000 Hz.
TabulatedFskBandwidths == {FskBandwidths[i] : i \in 1..21}

\* The smallest tabulated bandwidth that is at least `requested`, or the largest
\* when there is none.
ClampedFskBandwidth(requested) ==
    LET above == {b \in TabulatedFskBandwidths : b >= requested}
    IN  IF above # {}
        THEN CHOOSE b \in above : \A o \in above : b <= o
        ELSE CHOOSE b \in TabulatedFskBandwidths : \A o \in TabulatedFskBandwidths : o <= b

\* C21: an FSK configuration stores as its bandwidth the smallest of the 21
\* tabulated bandwidths that is at least the requested one, or the largest when
\* the request is above them all; no other value is ever stored for FSK.
C21_FskBandwidthClamped ==
    /\ (IsSetTxConfig /\ last.args.modem = MODEM_FSK) =>
           MockRadio.ModulationParams.Gfsk.Bandwidth =
               ClampedFskBandwidth(last.args.bandwidth)
    /\ FskConfigured =>
           MockRadio.ModulationParams.Gfsk.Bandwidth \in TabulatedFskBandwidths

\* What the code does with the bandwidth of an FSK request: it keeps it.
FskBandwidthStoredAsRequested ==
    (IsSetTxConfig /\ last.args.modem = MODEM_FSK) =>
        MockRadio.ModulationParams.Gfsk.Bandwidth = last.args.bandwidth

\* On a request that is itself a tabulated bandwidth the stored value is the
\* one C21 names.
FskBandwidthTabulatedKept ==
    (IsSetTxConfig /\ last.args.modem = MODEM_FSK
                   /\ last.args.bandwidth \in TabulatedFskBandwidths) =>
        MockRadio.ModulationParams.Gfsk.Bandwidth = ClampedFskBandwidth(last.args.bandwidth)

----------------------------------------------------------------------------
(* Properties of the table lookups *)

\* A LoRa SetTxConfig with a spreading factor of the documented range has been
\* applied.
LoRaAccepted ==
    /\ StoredLoRa.SpreadingFactor \in 5..12
    /\ StoredLoRa.Bandwidth \in {Bandwidths[i] : i \in DOMAIN Bandwidths}

\* C22: for every LoRa configuration SetTxConfig accepts within the documented
\* ranges, the lookup of Bandwidths in SetTxConfig stays inside its 3 entries,
\* and the lookup of the symbol time by a following TimeOnAir(LoRa, L) stays
\* inside the 3x6 table: row in 0..2, column 12 - SF in 0..5.
C22_LookupsInBounds ==
    /\ (IsSetTxConfig /\ last.args.modem = MODEM_LORA) =>
           last.args.bandwidth + 1 \in DOMAIN Bandwidths
    /\ (last.op = "RadioTimeOnAir" /\ last.args.modem = MODEM_LORA /\ LoRaAccepted) =>
           /\ SymbTimeRow \in 0..2
           /\ SymbTimeCol \in 0..5
           /\ last.outcome = "returned"

\* From SF7 up the lookups are inside the tables, and the row is inside for
\* every accepted configuration.
LookupsInBoundsFromSF7 ==
    /\ (last.op = "RadioTimeOnAir" /\ last.args.modem = MODEM_LORA /\ LoRaConfigured) =>
           InSymbTimeTable /\ last.outcome = "returned"
    /\ LoRaAccepted => SymbTimeRow \in 0..2

----------------------------------------------------------------------------
(* Properties of the callback handles *)

\* The last call came to the point where it reports through handle h: Send at
\* its end, Rx after the decode of data that fits, or after it found no txpk.
ReportsThrough(h) ==
    \/ h = "TxDone" /\ IsSend
    \/ h = "RxDone" /\ DataFits
    \/ h = "RxTimeout" /\ ReadLine /\ ~FoundTxpk

\* C23: Send and Rx never call through an absent callback handle: before init,
\* or after init with a sink that lacks the TxDone, RxDone or RxTimeout handle,
\* the operation completes and the callback is skipped.
C23_AbsentHandleSkipped ==
    \A h \in {"TxDone", "RxDone", "RxTimeout"} :
        (ReportsThrough(h) /\ ~CanCall(h)) =>
            /\ last.outcome = "returned"
            /\ last.cbs = << >>
            /\ proc = "running"

\* What the code does at an absent handle: the call goes through the null
\* pointer and the process ends there.
AbsentHandleCrashes ==
    \A h \in {"TxDone", "RxDone", "RxTimeout"} :
        (ReportsThrough(h) /\ ~CanCall(h)) =>
            /\ last.outcome = NullCall
            /\ last.cbs = << >>
            /\ proc = "crashed"

\* The dispatch of RadioIrqProcess tests the sink and the handle before every
\* report but that of a finished transmission.
IrqDispatchGuarded ==
    \A regs \in SUBSET (IrqConditions \ {"IRQ_TX_DONE"}) :
        IrqDispatch(regs, OperatingMode).outcome = "returned"

----------------------------------------------------------------------------
(* Properties of the two parameter sets *)

\* Everything RadioTimeOnAir( modem, . ) can do in the current state: for each
\* packet length and build, how the call can end and what it can return.
AirBehaviour(modem) ==
    [x \in PktLens \X EnumArithmetic |->
        <<AirOutcomes(modem), AirTimes(modem, x[1], x[2])>>]

\* C24: the FSK and LoRa parameter sets are independent: an FSK SetTxConfig
\* leaves every stored LoRa modulation and packet parameter unchanged, a LoRa
\* SetTxConfig leaves every stored FSK parameter unchanged, and so TimeOnAir for
\* one modem returns the same before and after a configuration of the other.
C24_ParameterSetsIndependent ==
    [][ (last'.op = "RadioSetTxConfig" /\ last'.args.modem \in {MODEM_FSK, MODEM_LORA}) =>
            /\ last'.args.modem = MODEM_FSK =>
                   /\ MockRadio'.ModulationParams.LoRa = MockRadio.ModulationParams.LoRa
                   /\ MockRadio'.PacketParams.LoRa = MockRadio.PacketParams.LoRa
                   /\ AirBehaviour(MODEM_LORA)' = AirBehaviour(MODEM_LORA)
            /\ last'.args.modem = MODEM_LORA =>
                   /\ MockRadio'.ModulationParams.Gfsk = MockRadio.ModulationParams.Gfsk
                   /\ MockRadio'.PacketParams.Gfsk = MockRadio.PacketParams.Gfsk
                   /\ AirBehaviour(MODEM_FSK)' = AirBehaviour(MODEM_FSK) ]_vars

\* TimeOnAir( LoRa, L ) was asked after an FSK configuration that followed a
\* LoRa one, and answered from the LoRa parameters.
C24_Witness ==
    /\ IsTimeOnAir(MODEM_LORA)
    /\ MockRadio.ModulationParams.PacketType = "PACKET_TYPE_GFSK"
    /\ FskConfigured
    /\ LoRaConfigured
    /\ last.build = "int"
    /\ last.ret = U32(ClaimedLoRaAirTime(last.args.pktLen))

====
